---- MODULE Spec2Model ----
(***************************************************************************)
(* State machine of the dataset page component (frontend-next/app/page.tsx) *)
(* of Polar_Demo: the React state of Page(), one action per synchronous     *)
(* segment of each handler (a handler runs up to its next await, React       *)
(* renders, and the handler resumes when the awaited request settles), the  *)
(* requests in flight, and the remote service the handlers talk to.         *)
(*                                                                         *)
(* A handler invocation keeps the values of the render it was created in    *)
(* (its closure); those values are stored with the in-flight task and used  *)
(* when the handler resumes, as the JavaScript does.                        *)
(***************************************************************************)
EXTENDS Integers, Sequences, FiniteSets, TLC

(* ------------------------------ bounds --------------------------------- *)
\* most operations kept on highlightStack by the modelled runs
MaxStack == 2
\* most turns kept in the transcript by the modelled runs
MaxMsgs == 5
\* most handler invocations in flight at once
MaxTasks == 1
\* handler invocations in flight at once in the runs with interleaved handlers
RaceTasks == 2
\* rows of the small dataset whose table body is rendered
SmallRows == 6

(* -------------------------- program constants --------------------------- *)
DEFAULT_PAGE_SIZE == 500
\* number of entries of the colors array of getRandomHighlightColor
PaletteSize == 8

\* null / undefined of the JavaScript state
NULL == "null"

(* --------------------------- remote service ----------------------------- *)
\* session tokens the service hands out; each names one dataset state
Tokens == {"s0", "s1"}
\* overlay (filter) codes the service generates for questions
Codes == {"f1"}
\* the token of the small dataset whose table body is rendered
SmallToken == "s2"
\* total row count of the dataset state behind a token
RowsOf(tok) == IF tok = "s0" THEN 0 ELSE IF tok = SmallToken THEN SmallRows ELSE 1200
\* dataset identity of the dataset behind a token
DatasetOf(tok) == IF tok = "s0" THEN "d0" ELSE "d1"
DatasetIds == {DatasetOf(t) : t \in Tokens}
\* number of rows matching an overlay code (no code: all rows)
MatchCount(tok, code) == IF code = NULL THEN RowsOf(tok) ELSE RowsOf(tok) \div 2
Min(a, b) == IF a < b THEN a ELSE b
Max(a, b) == IF a > b THEN a ELSE b
\* the slice a page request returns: which rows, and how many
PageRows(tok, off, lim, code) ==
    [tok |-> tok, off |-> off, code |-> code,
     len |-> Max(0, Min(lim, MatchCount(tok, code) - off))]
\* body of a successful /dataset/page response
PageResponseOf(req) ==
    [rows |-> PageRows(req.session, req.offset, req.limit, req.code),
     total |-> MatchCount(req.session, req.code)]
\* the window before anything was fetched: useState([])
NoRows == [tok |-> NULL, off |-> 0, code |-> NULL, len |-> 0]
\* remaining undo depths the service may report
UndoCounts == {0, 1}
\* changed-cell records (row_id, column) of a mutation response
Cell(r, c) == [row_id |-> r, column |-> c]
CellLists == {<<Cell(5, "age")>>, <<Cell(5, "age"), Cell(7, "age")>>}
\* changed-cell records of the mutations of the small dataset; zip is a
\* column the window does not display
RenderCellLists == {<<Cell(4, "age")>>, <<Cell(1, "name"), Cell(0, "age"), Cell(2, "zip")>>}
\* values Math.random() takes in the modelled runs, in tenths
RandomTenths == {0, 5}
\* message texts
ServerMessage == "server message"

(* ------------------------------- state ---------------------------------- *)
VARIABLES
    mounted,          \* the mount effect (useEffect, []) has run
    storage,          \* localStorage[STORAGE_DATASET_ID], NULL when absent
    datasetId, session, columns, rowCount,
    preview,          \* the displayed rows (preview / rawPreview)
    offset, limit, activeCode,
    loading, paging, error,
    messages,
    highlightedCells, \* function: cell key -> color
    highlightStack,   \* sequence of sequences of cell keys
    updatedRowIds,
    undoCount,
    tasks,            \* handler invocations waiting for a response
    ev                \* name of the last step taken (history)

sessionVars == <<datasetId, session, columns, rowCount>>
windowVars == <<preview, offset, limit, activeCode>>
highlightVars == <<highlightedCells, highlightStack, updatedRowIds>>
vars == <<mounted, storage, datasetId, session, columns, rowCount, preview,
          offset, limit, activeCode, loading, paging, error, messages,
          highlightedCells, highlightStack, updatedRowIds, undoCount, tasks, ev>>

(* ------------------------------ helpers --------------------------------- *)
\* `${cell.row_id}-${cell.column}`
CellKey(cell) == ToString(cell.row_id) \o "-" \o cell.column
\* colors[Math.floor(Math.random() * colors.length)], as an index of colors
getRandomHighlightColor(r) == (r * PaletteSize) \div 10
\* stripColumns: the schema without the __row_id entry
stripColumns(cols) == cols \ {"__row_id"}
\* schema the service reports for a token
ColumnsOf(tok) == IF tok = "s0" THEN {"__row_id", "age"} ELSE {"__row_id", "age", "name"}
\* x || y of JavaScript for numbers
OrNum(x, y) == IF x # 0 THEN x ELSE y
\* x || y of JavaScript for strings and null
OrStr(x, y) == IF x # NULL /\ x # "" THEN x ELSE y
\* keys of a highlight map
KeysOf(map) == DOMAIN map
RangeOf(seq) == {seq[i] : i \in 1..Len(seq)}
\* union of the keys of all operations of a stack
StackKeys(stack) == UNION {RangeOf(stack[i]) : i \in 1..Len(stack)}
EmptyMap == [k \in {} |-> 0]

Idle == [kind |-> "idle"]
\* the handler invocations that can be in flight at once
Slots == DOMAIN tasks
FreeSlots == {i \in Slots : tasks[i] = Idle}
Busy == {i \in Slots : tasks[i] # Idle}
\* the first free slot: a new invocation takes it
NewSlot == CHOOSE i \in FreeSlots : \A j \in FreeSlots : i <= j

(* ------------------------------- Init ----------------------------------- *)
InitWith(slots) ==
    /\ mounted = FALSE
    /\ storage \in {NULL} \cup DatasetIds
    /\ datasetId = NULL
    /\ session = NULL
    /\ columns = {}
    /\ rowCount = 0
    /\ preview = NoRows
    /\ offset = 0
    /\ limit = DEFAULT_PAGE_SIZE
    /\ activeCode = NULL
    /\ loading = FALSE
    /\ paging = FALSE
    /\ error = NULL
    /\ messages = <<>>
    /\ highlightedCells = EmptyMap
    /\ highlightStack = <<>>
    /\ updatedRowIds = {}
    /\ undoCount = 0
    /\ tasks = [i \in 1..slots |-> Idle]
    /\ ev = "init"
Init == InitWith(MaxTasks)

(* --------------------------- task records ------------------------------- *)
NoReq == [session |-> NULL, offset |-> 0, limit |-> 0, code |-> NULL,
          setCode |-> FALSE, codeOverride |-> NULL, setLimit |-> FALSE]
NoPend == [cells |-> <<>>, color |-> 0, code |-> NULL, undo_count |-> 0]
\* the values of the render a handler was created in, as far as that kind of
\* handler reads them after its first await: every handler reads rowCount (in
\* its fetchPage), runNLQ also session and limit, handleUndo also limit and the
\* highlight state; the controls read session, limit and activeCode before the
\* await, when they build the request
Closure(kind) ==
    [session |-> IF kind = "nlq" THEN session ELSE NULL,
     rowCount |-> rowCount,
     limit |-> IF kind \in {"nlq", "undo"} THEN limit ELSE 0,
     highlightStack |-> IF kind = "undo" THEN highlightStack ELSE <<>>,
     highlightedCells |-> IF kind = "undo" THEN highlightedCells ELSE EmptyMap]
\* the render itself, for a request built before any await
Render == [session |-> session, limit |-> limit, activeCode |-> activeCode]
\* an invocation of handler kind waiting at stage ("main": its own request,
\* "page": the request of the fetchPage it called)
Task(kind, stage, cl, id, req, pend) ==
    [kind |-> kind, stage |-> stage, cl |-> cl, id |-> id, req |-> req, pend |-> pend]
Waiting(i, kind, stage) == tasks[i] # Idle /\ tasks[i].kind = kind /\ tasks[i].stage = stage

\* the request fetchPage(newOffset, newLimit, explicitSession, codeOverride) sends
\* from closure cl; hasLimit and hasCode tell whether newLimit and codeOverride
\* were passed (null is a value of codeOverride), NULL is an explicitSession
\* left undefined
PageRequest(cl, newOffset, hasLimit, newLimit, explicitSession, hasCode, codeOverride) ==
    [session |-> OrStr(explicitSession, cl.session),
     offset |-> newOffset,
     limit |-> IF hasLimit THEN newLimit ELSE cl.limit,
     code |-> OrStr(IF hasCode THEN codeOverride ELSE cl.activeCode, NULL),
     setCode |-> hasCode,
     codeOverride |-> codeOverride,
     setLimit |-> hasLimit]

Turn(role, kind, text, total, code, upd) ==
    [role |-> role, kind |-> kind, text |-> text, totalCount |-> total,
     activeCode |-> code, updatedCount |-> upd]
Question == "question"

\* e.message of a failed fetchJson: data.detail || "Request failed"
FailureMessage(detail) == OrStr(detail, "Request failed")
\* the detail of a failed request in the modelled runs: none
Details == {NULL}
\* the message field of an undo response: absent or present
Messages == {NULL, ServerMessage}

(* ---------------- fetchPage: the part after its await ------------------- *)
\* try-block of fetchPage after a successful response, for request req sent
\* from closure cl
FetchPageOk(req, cl) ==
    LET data == PageResponseOf(req) IN
    /\ preview' = data.rows
    /\ rowCount' = OrNum(data.total, cl.rowCount)
    /\ offset' = req.offset
    /\ activeCode' = IF req.setCode THEN OrStr(req.codeOverride, NULL) ELSE activeCode
    /\ limit' = IF req.setLimit THEN req.limit ELSE limit
    /\ error' = error
\* catch-block of fetchPage
FetchPageFailed(detail) ==
    /\ error' = FailureMessage(detail)
    /\ UNCHANGED <<preview, rowCount, offset, activeCode, limit>>
\* fetchPage from its response to its return: try or catch, then finally
FetchPageSettle(req, cl, ok, detail) ==
    /\ IF ok THEN FetchPageOk(req, cl) ELSE FetchPageFailed(detail)
    /\ paging' = FALSE

\* fetchPage up to its await: setPaging(true), setError(null), request sent
FetchPageStart ==
    /\ paging' = TRUE
    /\ error' = NULL

\* a guard placed after setPaging(true) instead of before it
FetchPageNoSessionLate ==
    /\ error' = "Load a dataset first"
    /\ paging' = TRUE
    /\ UNCHANGED <<preview, rowCount, offset, activeCode, limit>>
\* fetchPage without a token (explicitSession || session is empty): the guard
\* at its top, before setPaging(true) and before any request
FetchPageNoSession ==
    /\ error' = "Load a dataset first"
    /\ UNCHANGED <<paging, preview, rowCount, offset, activeCode, limit>>

\* removing / replacing the task of slot i
Finish(i) == tasks' = [tasks EXCEPT ![i] = Idle]
Become(i, t) == tasks' = [tasks EXCEPT ![i] = t]

(* ------------------- disabled attributes of the controls ----------------- *)
\* disabled of the Send button
SendDisabled == loading
\* disabled of the Load button
LoadDisabled == loading
\* disabled of the Show All Data button
ShowAllDataDisabled == loading \/ paging
\* disabled of the Undo button
UndoDisabled == loading \/ paging \/ undoCount = 0

(* ------------------------ mount effect, openDataset ---------------------- *)
\* useEffect(() => {...}, []): reopen the stored identity, if any
Mount ==
    /\ ~mounted
    /\ mounted' = TRUE
    /\ ev' = "mount"
    /\ IF storage # NULL
         THEN /\ loading' = TRUE
              /\ error' = NULL
              /\ Become(NewSlot, Task("open", "main", Closure("open"), storage, NoReq, NoPend))
         ELSE UNCHANGED <<loading, error, tasks>>
    /\ UNCHANGED <<storage, sessionVars, windowVars, paging, messages, highlightVars, undoCount>>

\* a load/open that forgets to store the identity
PersistNever(id, stored) == stored
\* if (data.dataset_id) localStorage.setItem(STORAGE_DATASET_ID, data.dataset_id):
\* the slot after a response carrying identity id (NULL: none), stored before
Persist(id, stored) == IF id # NULL THEN id ELSE stored

\* the body of loadDataset / openDataset after a successful response carrying
\* token tok and identity id (NULL: no dataset_id in the response; fallback is
\* what data.dataset_id || ... falls back to)
Establish(i, tok, id, fallback) ==
    /\ datasetId' = OrStr(id, fallback)
    /\ storage' = Persist(id, storage)
    /\ session' = tok
    /\ columns' = stripColumns(ColumnsOf(tok))
    /\ messages' = <<>>
    /\ FetchPageStart
    /\ Become(i, [tasks[i] EXCEPT !.stage = "page",
                    !.req = PageRequest(tasks[i].cl, 0, TRUE, DEFAULT_PAGE_SIZE, tok, TRUE, NULL)])
    \* setRowCount, setPreview, setActiveCode(null), setOffset(0), setLimit
    /\ rowCount' = OrNum(RowsOf(tok), 0)
    /\ preview' = PageRows(tok, 0, DEFAULT_PAGE_SIZE, NULL)
    /\ activeCode' = NULL
    /\ offset' = 0
    /\ limit' = DEFAULT_PAGE_SIZE
    /\ UNCHANGED <<mounted, loading, highlightVars, undoCount>>

\* the body of loadDataset / openDataset after a successful response that
\* carries no session token (data.session empty): the snapshot of dataset
\* state dtok is stored, if (data.session) skips fetchPage, then finally
EstablishNoSession(i, dtok, id, fallback) ==
    /\ datasetId' = OrStr(id, fallback)
    /\ storage' = Persist(id, storage)
    /\ session' = NULL
    /\ columns' = stripColumns(ColumnsOf(dtok))
    /\ rowCount' = OrNum(RowsOf(dtok), 0)
    /\ preview' = PageRows(dtok, 0, DEFAULT_PAGE_SIZE, NULL)
    /\ activeCode' = NULL
    /\ messages' = <<>>
    /\ offset' = 0
    /\ limit' = DEFAULT_PAGE_SIZE
    /\ loading' = FALSE
    /\ Finish(i)
    /\ UNCHANGED <<mounted, paging, error, highlightVars, undoCount>>

OpenResponseOk(i, tok, hasId) ==
    /\ Waiting(i, "open", "main")
    /\ DatasetOf(tok) = tasks[i].id
    /\ Establish(i, tok, IF hasId THEN tasks[i].id ELSE NULL, tasks[i].id)
    /\ ev' = "openOk"

OpenResponseNoSession(i, dtok, hasId) ==
    /\ Waiting(i, "open", "main")
    /\ DatasetOf(dtok) = tasks[i].id
    /\ EstablishNoSession(i, dtok, IF hasId THEN tasks[i].id ELSE NULL, tasks[i].id)
    /\ ev' = "openOkNoSession"

\* a failed reopen that leaves the stored identity in place
OpenResponseFailKeeps(i, detail) ==
    /\ Waiting(i, "open", "main")
    /\ error' = FailureMessage(detail)
    /\ loading' = FALSE
    /\ Finish(i)
    /\ ev' = "openFail"
    /\ UNCHANGED <<mounted, storage, sessionVars, windowVars, paging, messages, highlightVars, undoCount>>
\* catch-block of openDataset
OpenResponseFail(i, detail) ==
    /\ Waiting(i, "open", "main")
    /\ storage' = NULL
    /\ error' = FailureMessage(detail)
    /\ loading' = FALSE
    /\ Finish(i)
    /\ ev' = "openFail"
    /\ UNCHANGED <<mounted, sessionVars, windowVars, paging, messages, highlightVars, undoCount>>

(* ------------------------------ loadDataset ------------------------------ *)
\* the Load button
LoadDataset ==
    /\ mounted /\ ~LoadDisabled /\ FreeSlots # {}
    /\ loading' = TRUE
    /\ error' = NULL
    /\ Become(NewSlot, Task("load", "main", Closure("load"), NULL, NoReq, NoPend))
    /\ ev' = "load"
    /\ UNCHANGED <<mounted, storage, sessionVars, windowVars, paging, messages, highlightVars, undoCount>>

LoadResponseOk(i, tok, hasId) ==
    /\ Waiting(i, "load", "main")
    /\ Establish(i, tok, IF hasId THEN DatasetOf(tok) ELSE NULL, NULL)
    /\ ev' = "loadOk"

LoadResponseNoSession(i, dtok, hasId) ==
    /\ Waiting(i, "load", "main")
    /\ EstablishNoSession(i, dtok, IF hasId THEN DatasetOf(dtok) ELSE NULL, NULL)
    /\ ev' = "loadOkNoSession"

\* catch-block of loadDataset
LoadResponseFail(i, detail) ==
    /\ Waiting(i, "load", "main")
    /\ error' = FailureMessage(detail)
    /\ loading' = FALSE
    /\ Finish(i)
    /\ ev' = "loadFail"
    /\ UNCHANGED <<mounted, storage, sessionVars, windowVars, paging, messages, highlightVars, undoCount>>

\* the fetchPage of loadDataset / openDataset settles, then finally
EstablishPageDone(i, ok, detail) ==
    /\ tasks[i] # Idle /\ tasks[i].kind \in {"load", "open"} /\ tasks[i].stage = "page"
    /\ FetchPageSettle(tasks[i].req, tasks[i].cl, ok, detail)
    /\ loading' = FALSE
    /\ Finish(i)
    /\ ev' = IF ok THEN "establishPageOk" ELSE "establishPageFail"
    /\ UNCHANGED <<mounted, storage, datasetId, session, columns, messages, highlightVars, undoCount>>

(* -------------------------------- runNLQ -------------------------------- *)
\* the Send button without a session: the guard at the top of runNLQ
RunNLQNoSession ==
    /\ mounted /\ ~SendDisabled /\ session = NULL
    /\ error' = "Load a dataset first"
    /\ ev' = "nlqNoSession"
    /\ UNCHANGED <<mounted, storage, sessionVars, windowVars, loading, paging, messages,
                   highlightVars, undoCount, tasks>>

\* the Send button: runNLQ up to its await
RunNLQ ==
    /\ mounted /\ ~SendDisabled /\ session # NULL /\ FreeSlots # {}
    /\ Len(messages) + 2 <= MaxMsgs
    /\ loading' = TRUE
    /\ error' = NULL
    /\ Become(NewSlot, Task("nlq", "main", Closure("nlq"), NULL, NoReq, NoPend))
    /\ ev' = "nlq"
    /\ UNCHANGED <<mounted, storage, sessionVars, windowVars, paging, messages, highlightVars, undoCount>>

\* an append that drops the turns already in the transcript
AppendTurnsReplacing(prev, turns) == turns
\* setMessages((m) => [...m, turn, ...]): the transcript with turns at its end
AppendTurns(prev, turns) == prev \o turns

\* the two turns runNLQ appends: the user turn, then the assistant turn
UserTurn == Turn("user", "text", Question, 0, NULL, 0)
\* an error recorded as a plain text turn
ErrorTurnAsText(err) == Turn("assistant", "text", OrStr(err, ""), 0, NULL, 0)
ErrorTurn(err) == Turn("assistant", "error", OrStr(err, ""), 0, NULL, 0)
UpdateTurn(code, n) == Turn("assistant", "update", OrStr(code, ""), 0, NULL, n)
PreviewTurn(code, total) == Turn("assistant", "preview", OrStr(code, ""), total, code, 0)

\* a response {error, code?}: no changed cells
NLQResponseError(i, code) ==
    /\ Waiting(i, "nlq", "main")
    /\ error' = ServerMessage
    /\ activeCode' = OrStr(code, NULL)
    /\ messages' = AppendTurns(messages, <<UserTurn, ErrorTurn(ServerMessage)>>)
    /\ loading' = FALSE
    /\ Finish(i)
    /\ ev' = "nlqError"
    /\ UNCHANGED <<mounted, storage, sessionVars, preview, offset, limit, paging,
                   highlightVars, undoCount>>

\* a response {code, preview, total_count}: no changed cells, no error
NLQResponsePreview(i, code) ==
    /\ Waiting(i, "nlq", "main")
    /\ activeCode' = OrStr(code, NULL)
    /\ messages' = AppendTurns(messages,
                     <<UserTurn, PreviewTurn(code, OrNum(MatchCount(tasks[i].cl.session, code), 0))>>)
    /\ loading' = FALSE
    /\ Finish(i)
    /\ ev' = "nlqPreview"
    /\ UNCHANGED <<mounted, storage, sessionVars, preview, offset, limit, paging, error,
                   highlightVars, undoCount>>

\* a response {code, updated_cells, undo_count} with a non-empty cell list:
\* runNLQ up to the await of its fetchPage(0, limit, session, null)
NLQResponseMutation(i, code, cells, undo_count, r) ==
    /\ Waiting(i, "nlq", "main")
    /\ RowsOf(tasks[i].cl.session) > 0
    /\ Len(highlightStack) < MaxStack
    /\ updatedRowIds' = updatedRowIds \cup {cells[k].row_id : k \in 1..Len(cells)}
    /\ FetchPageStart
    /\ activeCode' = OrStr(code, NULL)
    /\ Become(i, [tasks[i] EXCEPT !.stage = "page",
                    !.req = PageRequest(tasks[i].cl, 0, TRUE, tasks[i].cl.limit,
                                        tasks[i].cl.session, TRUE, NULL),
                    !.pend = [cells |-> cells, color |-> getRandomHighlightColor(r),
                              code |-> code, undo_count |-> undo_count]])
    /\ ev' = "nlqMutation"
    /\ UNCHANGED <<mounted, storage, sessionVars, preview, offset, limit, loading, messages,
                   highlightedCells, highlightStack, undoCount>>

\* an undo depth counted from the changed cells instead of read from the response
UndoCountOfCells(data) == Len(data.cells)
\* data.undo_count || 0 of a mutation or undo response data
ReportedUndoCount(data) == OrNum(data.undo_count, 0)

\* operationKeys: one key per changed cell, in the order of the response
OperationKeys(cells) == [k \in 1..Len(cells) |-> CellKey(cells[k])]
\* a merge that draws a color per cell instead of one per operation
MergeHighlightsPerCell(prev, keys, color) ==
    [k \in DOMAIN prev \cup RangeOf(keys) |->
        IF k \in RangeOf(keys)
          THEN (IF k = keys[1] THEN color ELSE (color + 1) % PaletteSize)
          ELSE prev[k]]
\* merged: prev with every key of the operation set to the operation's color
MergeHighlights(prev, keys, color) ==
    [k \in DOMAIN prev \cup RangeOf(keys) |-> IF k \in RangeOf(keys) THEN color ELSE prev[k]]
\* a push at the bottom of the stack
PushOperationFront(stack, keys) == <<keys>> \o stack
\* [...prevStack, operationKeys]: the operation pushed on the stack
PushOperation(stack, keys) == Append(stack, keys)

\* the fetchPage of a mutation settles; runNLQ goes on to its end
NLQPageDone(i, ok, detail) ==
    /\ Waiting(i, "nlq", "page")
    /\ FetchPageSettle(tasks[i].req, tasks[i].cl, ok, detail)
    /\ LET p == tasks[i].pend
           keys == OperationKeys(p.cells)
       IN /\ highlightedCells' = MergeHighlights(highlightedCells, keys, p.color)
          /\ highlightStack' = PushOperation(highlightStack, keys)
          /\ messages' = AppendTurns(messages, <<UserTurn, UpdateTurn(p.code, Len(p.cells))>>)
          /\ undoCount' = ReportedUndoCount(p)
    /\ loading' = FALSE
    /\ Finish(i)
    /\ ev' = IF ok THEN "nlqPageOk" ELSE "nlqPageFail"
    /\ UNCHANGED <<mounted, storage, datasetId, session, columns, updatedRowIds>>

\* a catch-block that also reports the failure in the transcript
NLQResponseFailLogged(i, detail) ==
    /\ Waiting(i, "nlq", "main")
    /\ error' = FailureMessage(detail)
    /\ messages' = AppendTurns(messages, <<Turn("assistant", "text", FailureMessage(detail), 0, NULL, 0)>>)
    /\ loading' = FALSE
    /\ Finish(i)
    /\ ev' = "nlqFail"
    /\ UNCHANGED <<mounted, storage, sessionVars, windowVars, paging, highlightVars, undoCount>>
\* catch-block of runNLQ: the request failed
NLQResponseFail(i, detail) ==
    /\ Waiting(i, "nlq", "main")
    /\ error' = FailureMessage(detail)
    /\ loading' = FALSE
    /\ Finish(i)
    /\ ev' = "nlqFail"
    /\ UNCHANGED <<mounted, storage, sessionVars, windowVars, paging, messages, highlightVars, undoCount>>

(* ------------------------------- handleUndo ------------------------------ *)
\* the Undo button is enabled
UndoEnabled == mounted /\ ~UndoDisabled

\* a guard placed after setLoading(true) instead of before it
HandleUndoNoDatasetLate ==
    /\ UndoEnabled
    /\ datasetId = NULL \/ session = NULL
    /\ error' = "No dataset loaded"
    /\ loading' = TRUE
    /\ ev' = "undoNoDataset"
    /\ UNCHANGED <<mounted, storage, sessionVars, windowVars, paging, messages,
                   highlightVars, undoCount, tasks>>
\* the guard at the top of handleUndo: no dataset identity or no token
HandleUndoNoDataset ==
    /\ UndoEnabled
    /\ datasetId = NULL \/ session = NULL
    /\ error' = "No dataset loaded"
    /\ ev' = "undoNoDataset"
    /\ UNCHANGED <<mounted, storage, sessionVars, windowVars, loading, paging, messages,
                   highlightVars, undoCount, tasks>>

\* handleUndo up to its await
HandleUndo ==
    /\ UndoEnabled
    /\ datasetId # NULL /\ session # NULL
    /\ FreeSlots # {}
    /\ Len(messages) + 1 <= MaxMsgs
    /\ loading' = TRUE
    /\ error' = NULL
    /\ Become(NewSlot, Task("undo", "main", Closure("undo"), NULL, NoReq, NoPend))
    /\ ev' = "undo"
    /\ UNCHANGED <<mounted, storage, sessionVars, windowVars, paging, messages, highlightVars, undoCount>>

\* an undo that forgets to pop
PopOperationNone(stack) == stack
\* newStack: currentStack.slice(0, -1)
PopOperation(stack) == SubSeq(stack, 1, Len(stack) - 1)
\* an undo that deletes only the first key of the undone operation
RemoveKeysFirstOnly(map, keys) == [k \in DOMAIN map \ {keys[1]} |-> map[k]]
\* newHighlightedCells: the map without the keys of the undone operation
RemoveKeys(map, keys) == [k \in DOMAIN map \ RangeOf(keys) |-> map[k]]
\* parseInt(key.split("-")[0], 10) of a key built by CellKey
RowIdOfKey(key) ==
    LET cellsOf == UNION {RangeOf(c) : c \in CellLists \cup RenderCellLists}
    IN (CHOOSE cell \in cellsOf : CellKey(cell) = key).row_id
\* an undo that marks no row at all
RowIdsOfNone(stack) == {}
\* newRowIds: the row ids of the keys of the remaining operations
RowIdsOf(stack) == {RowIdOfKey(key) : key \in StackKeys(stack)}
UndoTurn(msg) == Turn("assistant", "text", OrStr(msg, "Changes reverted successfully."), 0, NULL, 0)

\* a response with success = true: handleUndo up to the await of its fetchPage
UndoResponseOk(i, tok, undo_count, msg) ==
    /\ Waiting(i, "undo", "main")
    /\ LET currentStack == tasks[i].cl.highlightStack IN
       IF Len(currentStack) > 0
         THEN /\ highlightStack' = PopOperation(currentStack)
              /\ highlightedCells' = RemoveKeys(tasks[i].cl.highlightedCells,
                                                currentStack[Len(currentStack)])
              /\ updatedRowIds' = RowIdsOf(PopOperation(currentStack))
         ELSE UNCHANGED highlightVars
    /\ session' = tok
    /\ columns' = stripColumns(ColumnsOf(tok))
    /\ rowCount' = OrNum(RowsOf(tok), 0)
    /\ preview' = PageRows(tok, 0, DEFAULT_PAGE_SIZE, NULL)
    /\ undoCount' = ReportedUndoCount([NoPend EXCEPT !.undo_count = undo_count])
    /\ messages' = AppendTurns(messages, <<UndoTurn(msg)>>)
    /\ FetchPageStart
    /\ Become(i, [tasks[i] EXCEPT !.stage = "page",
                    !.req = PageRequest(tasks[i].cl, 0, TRUE, tasks[i].cl.limit, tok, TRUE, NULL),
                    !.pend = [NoPend EXCEPT !.undo_count = undo_count]])
    /\ ev' = "undoOk"
    /\ UNCHANGED <<mounted, storage, datasetId, offset, limit, activeCode, loading>>

\* a refusal that also resets the undo depth
UndoResponseRefusedReset(i, msg) ==
    /\ Waiting(i, "undo", "main")
    /\ error' = OrStr(msg, "Undo failed")
    /\ undoCount' = 0
    /\ loading' = FALSE
    /\ Finish(i)
    /\ ev' = "undoRefused"
    /\ UNCHANGED <<mounted, storage, sessionVars, windowVars, paging, messages, highlightVars>>
\* a response with success = false
UndoResponseRefused(i, msg) ==
    /\ Waiting(i, "undo", "main")
    /\ error' = OrStr(msg, "Undo failed")
    /\ loading' = FALSE
    /\ Finish(i)
    /\ ev' = "undoRefused"
    /\ UNCHANGED <<mounted, storage, sessionVars, windowVars, paging, messages, highlightVars, undoCount>>

\* a catch-block without the finally that clears loading
UndoResponseFailStuck(i, detail) ==
    /\ Waiting(i, "undo", "main")
    /\ error' = FailureMessage(detail)
    /\ Finish(i)
    /\ ev' = "undoFail"
    /\ UNCHANGED <<mounted, storage, sessionVars, windowVars, loading, paging, messages,
                   highlightVars, undoCount>>
\* catch-block of handleUndo: the request failed
UndoResponseFail(i, detail) ==
    /\ Waiting(i, "undo", "main")
    /\ error' = FailureMessage(detail)
    /\ loading' = FALSE
    /\ Finish(i)
    /\ ev' = "undoFail"
    /\ UNCHANGED <<mounted, storage, sessionVars, windowVars, paging, messages, highlightVars, undoCount>>

\* the fetchPage of handleUndo settles, then finally
UndoPageDone(i, ok, detail) ==
    /\ Waiting(i, "undo", "page")
    /\ FetchPageSettle(tasks[i].req, tasks[i].cl, ok, detail)
    /\ loading' = FALSE
    /\ Finish(i)
    /\ ev' = IF ok THEN "undoPageOk" ELSE "undoPageFail"
    /\ UNCHANGED <<mounted, storage, datasetId, session, columns, messages, highlightVars, undoCount>>

(* ------------------- paging and overlay controls ------------------------ *)
\* a control calls fetchPage from the current render: a "page" task
StartPage(req) ==
    /\ FetchPageStart
    /\ Become(NewSlot, Task("page", "page", Closure("page"), NULL, req, NoPend))

\* Math.ceil(a / b) for a >= 0, b > 0
CeilDiv(a, b) == (a + b - 1) \div b
\* Math.max(1, Math.ceil((rowCount || preview.length || 1) / limit))
totalPages == Max(1, CeilDiv(OrNum(OrNum(rowCount, preview.len), 1), limit))
\* Math.floor(offset / limit) + 1
currentPage == (offset \div limit) + 1
\* disabled of the Prev button
PrevDisabled == paging \/ offset = 0
\* disabled of the Next button
NextDisabled == paging \/ offset + limit >= OrNum(rowCount, preview.len)

\* the Prev button: fetchPage(Math.max(0, offset - limit))
FetchPrev ==
    /\ mounted /\ ~PrevDisabled
    /\ session # NULL /\ FreeSlots # {}
    /\ StartPage(PageRequest(Render, Max(0, offset - limit), FALSE, 0, NULL, FALSE, NULL))
    /\ ev' = "prev"
    /\ UNCHANGED <<mounted, storage, sessionVars, windowVars, loading, messages, highlightVars, undoCount>>

\* the Next button: fetchPage(offset + limit)
FetchNext ==
    /\ mounted /\ ~NextDisabled
    /\ session # NULL /\ FreeSlots # {}
    /\ StartPage(PageRequest(Render, offset + limit, FALSE, 0, NULL, FALSE, NULL))
    /\ ev' = "next"
    /\ UNCHANGED <<mounted, storage, sessionVars, windowVars, loading, messages, highlightVars, undoCount>>

\* the Next button while no token is held: fetchPage stops at its guard
FetchNextNoSession ==
    /\ mounted /\ ~NextDisabled
    /\ session = NULL
    /\ FetchPageNoSession
    /\ ev' = "nextNoSession"
    /\ UNCHANGED <<mounted, storage, datasetId, session, columns, loading, messages,
                   highlightVars, undoCount, tasks>>

\* a Show All button that stays enabled on older turns
ShowAllEnabledOnAnyTurn(idx) ==
    /\ idx \in 1..Len(messages)
    /\ messages[idx].kind = "preview"
    /\ messages[idx].totalCount > 0
\* the Show All button of the turn at index idx of the transcript
ShowAllEnabled(idx) ==
    /\ idx \in 1..Len(messages)
    /\ messages[idx].kind = "preview"
    /\ messages[idx].totalCount > 0
    /\ idx = Len(messages)

\* handleShowAllInTable(m.activeCode || null)
HandleShowAllInTable(idx) ==
    /\ mounted /\ ShowAllEnabled(idx)
    /\ session # NULL /\ FreeSlots # {}
    /\ LET code == OrStr(messages[idx].activeCode, NULL) IN
       /\ activeCode' = code
       /\ StartPage(PageRequest(Render, 0, TRUE, limit, session, TRUE, code))
    /\ ev' = "showAllInTable"
    /\ UNCHANGED <<mounted, storage, sessionVars, preview, offset, limit, loading, messages,
                   highlightVars, undoCount>>

\* the Show All Data button: handleShowAllData
HandleShowAllData ==
    /\ mounted /\ ~ShowAllDataDisabled
    /\ session # NULL /\ FreeSlots # {}
    /\ activeCode' = NULL
    /\ StartPage(PageRequest(Render, 0, TRUE, limit, session, TRUE, NULL))
    /\ ev' = "showAllData"
    /\ UNCHANGED <<mounted, storage, sessionVars, preview, offset, limit, loading, messages,
                   highlightVars, undoCount>>

\* a fetchPage that drops the highlights when it settles
PageDoneClearing(i, ok, detail) ==
    /\ Waiting(i, "page", "page")
    /\ FetchPageSettle(tasks[i].req, tasks[i].cl, ok, detail)
    /\ Finish(i)
    /\ ev' = IF ok THEN "pageOk" ELSE "pageFail"
    /\ highlightedCells' = EmptyMap
    /\ highlightStack' = <<>>
    /\ UNCHANGED <<mounted, storage, datasetId, session, columns, loading, messages,
                   updatedRowIds, undoCount>>
\* a fetchPage called by a control settles
PageDone(i, ok, detail) ==
    /\ Waiting(i, "page", "page")
    /\ FetchPageSettle(tasks[i].req, tasks[i].cl, ok, detail)
    /\ Finish(i)
    /\ ev' = IF ok THEN "pageOk" ELSE "pageFail"
    /\ UNCHANGED <<mounted, storage, datasetId, session, columns, loading, messages,
                   highlightVars, undoCount>>

(* ---------------------------- table body render ------------------------- *)
\* __row_id of the rows of window p (rawPreview), in the order the service
\* returned them: without overlay code by ascending id, with one the matching
\* rows in the order the expression gives them (here: descending)
WindowRowIds(p) ==
    IF p.code = NULL
      THEN [k \in 1..p.len |-> p.off + k - 1]
      ELSE [k \in 1..p.len |-> RowsOf(p.tok) - 2 * (p.off + k)]
\* Object.keys(preview[0] || {}): the columns of the first displayed row
DisplayedColumns(p) == IF p.len = 0 THEN {} ELSE stripColumns(ColumnsOf(p.tok))
\* aHasHighlight: some displayed column of the row has a key in highlightedCells
HasHighlight(rowId, cols, cells) ==
    \E col \in cols : CellKey(Cell(rowId, col)) \in DOMAIN cells
\* a comparator that orders the rows by their id
ComparePairsById(aRowId, bRowId, cols, cells) ==
    IF aRowId < bRowId THEN -1 ELSE IF aRowId > bRowId THEN 1 ELSE 0
\* the comparator passed to sort
ComparePairs(aRowId, bRowId, cols, cells) ==
    LET aHasHighlight == HasHighlight(aRowId, cols, cells)
        bHasHighlight == HasHighlight(bRowId, cols, cells)
    IN IF aHasHighlight /\ ~bHasHighlight THEN -1
       ELSE IF ~aHasHighlight /\ bHasHighlight THEN 1
       ELSE 0
\* Array.prototype.sort is a stable sort: the pair idx goes before the first
\* pair of sorted that the comparator puts after it
RECURSIVE StableInsert(_, _, _, _, _)
StableInsert(sorted, idx, rowIds, cols, cells) ==
    IF sorted = <<>> THEN <<idx>>
    ELSE IF ComparePairs(rowIds[idx], rowIds[Head(sorted)], cols, cells) < 0
           THEN <<idx>> \o sorted
           ELSE <<Head(sorted)>> \o StableInsert(Tail(sorted), idx, rowIds, cols, cells)
RECURSIVE StableSort(_, _, _, _)
StableSort(n, rowIds, cols, cells) ==
    IF n = 0 THEN <<>>
    ELSE StableInsert(StableSort(n - 1, rowIds, cols, cells), n, rowIds, cols, cells)
\* sortedPairs of the render of the current state, as the sequence of the idx
\* (position in the window, from 1) of its pairs
sortedPairs ==
    StableSort(preview.len, WindowRowIds(preview), DisplayedColumns(preview), highlightedCells)

(* --------------------------------- Next --------------------------------- *)
Next ==
    \/ Mount
    \/ \E i \in Slots, tok \in Tokens, hasId \in BOOLEAN : OpenResponseOk(i, tok, hasId)
    \/ \E i \in Slots, dtok \in Tokens, hasId \in BOOLEAN : OpenResponseNoSession(i, dtok, hasId)
    \/ \E i \in Slots, detail \in Details : OpenResponseFail(i, detail)
    \/ LoadDataset
    \/ \E i \in Slots, tok \in Tokens, hasId \in BOOLEAN : LoadResponseOk(i, tok, hasId)
    \/ \E i \in Slots, dtok \in Tokens, hasId \in BOOLEAN : LoadResponseNoSession(i, dtok, hasId)
    \/ \E i \in Slots, detail \in Details : LoadResponseFail(i, detail)
    \/ \E i \in Slots, ok \in BOOLEAN, detail \in Details : EstablishPageDone(i, ok, detail)
    \/ RunNLQNoSession
    \/ RunNLQ
    \/ \E i \in Slots, code \in Codes \cup {NULL} : NLQResponseError(i, code)
    \/ \E i \in Slots, code \in Codes : NLQResponsePreview(i, code)
    \/ \E i \in Slots, code \in Codes, cells \in CellLists, n \in UndoCounts, r \in RandomTenths :
          NLQResponseMutation(i, code, cells, n, r)
    \/ \E i \in Slots, ok \in BOOLEAN, detail \in Details : NLQPageDone(i, ok, detail)
    \/ \E i \in Slots, detail \in Details : NLQResponseFail(i, detail)
    \/ HandleUndoNoDataset
    \/ HandleUndo
    \/ \E i \in Slots, tok \in Tokens, n \in UndoCounts :
          UndoResponseOk(i, tok, n, ServerMessage)
    \/ \E i \in Slots, msg \in Messages : UndoResponseRefused(i, msg)
    \/ \E i \in Slots, detail \in Details : UndoResponseFail(i, detail)
    \/ \E i \in Slots, ok \in BOOLEAN, detail \in Details : UndoPageDone(i, ok, detail)
    \/ FetchPrev
    \/ FetchNext
    \/ FetchNextNoSession
    \/ \E idx \in 1..MaxMsgs : HandleShowAllInTable(idx)
    \/ HandleShowAllData
    \/ \E i \in Slots, ok \in BOOLEAN, detail \in Details : PageDone(i, ok, detail)

Spec == Init /\ [][Next]_vars

(* ------------- every request is answered or fails in the end ------------ *)
\* the runs in which liveness is checked: one dataset, one transformation,
\* one changed cell; every handler, every response and every failure
LiveToken == "s1"
LiveCode == "f1"
LiveCells == <<Cell(5, "age")>>
\* the outstanding request of handler i gets its response or fails
Respond(i) ==
    \/ OpenResponseOk(i, LiveToken, TRUE)
    \/ OpenResponseFail(i, NULL)
    \/ LoadResponseOk(i, LiveToken, TRUE)
    \/ LoadResponseFail(i, NULL)
    \/ \E ok \in BOOLEAN : EstablishPageDone(i, ok, NULL)
    \/ NLQResponseError(i, NULL)
    \/ NLQResponsePreview(i, LiveCode)
    \/ NLQResponseMutation(i, LiveCode, LiveCells, 1, 0)
    \/ \E ok \in BOOLEAN : NLQPageDone(i, ok, NULL)
    \/ NLQResponseFail(i, NULL)
    \/ UndoResponseOk(i, LiveToken, 0, ServerMessage)
    \/ UndoResponseRefused(i, NULL)
    \/ UndoResponseFail(i, NULL)
    \/ \E ok \in BOOLEAN : UndoPageDone(i, ok, NULL)
    \/ \E ok \in BOOLEAN : PageDone(i, ok, NULL)
NextLive ==
    \/ Mount
    \/ LoadDataset
    \/ RunNLQ
    \/ HandleUndo
    \/ FetchPrev
    \/ FetchNext
    \/ \E idx \in 1..MaxMsgs : HandleShowAllInTable(idx)
    \/ HandleShowAllData
    \/ \E i \in Slots : Respond(i)
SpecLive == Init /\ [][NextLive]_vars /\ \A i \in 1..MaxTasks : WF_vars(Respond(i))

(* ---------------- two handler invocations in flight at once ------------- *)
\* React runs a second handler while the first awaits its response
InitRace == InitWith(RaceTasks)
SpecRace == InitRace /\ [][NextLive]_vars

(* ------- the page on the small dataset, every request answered ---------- *)
InitRender == Init /\ storage = NULL
NextRender ==
    \/ Mount
    \/ LoadDataset
    \/ \E i \in Slots : LoadResponseOk(i, SmallToken, TRUE)
    \/ \E i \in Slots : EstablishPageDone(i, TRUE, NULL)
    \/ RunNLQ
    \/ \E i \in Slots, code \in Codes : NLQResponsePreview(i, code)
    \/ \E i \in Slots, code \in Codes, cells \in RenderCellLists, r \in RandomTenths :
          NLQResponseMutation(i, code, cells, 1, r)
    \/ \E i \in Slots : NLQPageDone(i, TRUE, NULL)
    \/ HandleUndo
    \/ \E i \in Slots, n \in UndoCounts : UndoResponseOk(i, SmallToken, n, ServerMessage)
    \/ \E i \in Slots : UndoPageDone(i, TRUE, NULL)
    \/ \E idx \in 1..MaxMsgs : HandleShowAllInTable(idx)
    \/ HandleShowAllData
    \/ \E i \in Slots : PageDone(i, TRUE, NULL)
SpecRender == InitRender /\ [][NextRender]_vars

(* ------------------------------ properties ------------------------------ *)
Last(seq) == seq[Len(seq)]
\* the one handler invocation in flight that is of kind k, if any
InFlight(k) == {i \in Slots : tasks[i] # Idle /\ tasks[i].kind = k}

\* C1: in every reachable state the key set of highlightedCells is exactly the
\* union of the keys of the operations on highlightStack.
C1_HighlightKeysAreStackKeys ==
    KeysOf(highlightedCells) = StackKeys(highlightStack)

\* C2: right after a successful load or open, highlightedCells, highlightStack
\* and the transcript are all empty.
C2_LoadClearsHighlightsAndTranscript ==
    ev \in {"loadOk", "openOk"} =>
        /\ highlightedCells = EmptyMap
        /\ highlightStack = <<>>
        /\ messages = <<>>

\* C3: a preview response leaves the displayed rows, offset, limit, total row
\* count and the overlay code activeCode as they were.
C3_PreviewLeavesWindow ==
    [][ev' = "nlqPreview" => UNCHANGED <<preview, offset, limit, rowCount, activeCode>>]_vars

\* C4: a response carrying an error changes nothing of the session (token,
\* columns, rowCount), the window (rows, offset, limit, activeCode) or the
\* highlight map and stack.
C4_ErrorResponseChangesNothing ==
    [][ev' = "nlqError" =>
         UNCHANGED <<session, columns, rowCount, preview, offset, limit, activeCode,
                     highlightedCells, highlightStack>>]_vars

\* C5: a successful undo takes exactly the keys of the last operation of the
\* stack out of highlightedCells and leaves every other entry, key and color,
\* as it was.
C5_UndoRemovesExactlyPoppedKeys ==
    [][ev' = "undoOk" =>
         LET gone == IF highlightStack = <<>> THEN {} ELSE RangeOf(Last(highlightStack))
         IN /\ DOMAIN highlightedCells' = DOMAIN highlightedCells \ gone
            /\ \A k \in DOMAIN highlightedCells' : highlightedCells'[k] = highlightedCells[k]]_vars
\* an undo of a one-key operation has left the key of an older operation
C5_Witness ==
    /\ ev = "undoOk"
    /\ Len(highlightStack) = 1
    /\ DOMAIN highlightedCells = {"7-age"}

\* C6 as stated: every successful undo makes highlightStack exactly one shorter.
C6_UndoAlwaysPopsOne ==
    [][ev' = "undoOk" => Len(highlightStack') = Len(highlightStack) - 1]_vars
\* C6 as amended: a successful undo makes a non-empty highlightStack exactly
\* one shorter, keeping the operations below the top, and leaves an empty one
\* empty.
C6_UndoPopsOneIfAny ==
    [][ev' = "undoOk" =>
         IF highlightStack = <<>>
           THEN highlightStack' = <<>>
           ELSE /\ Len(highlightStack') = Len(highlightStack) - 1
                /\ \A k \in 1..Len(highlightStack') : highlightStack'[k] = highlightStack[k]]_vars
\* an undo answered with success while two operations were on the stack
C6_Witness ==
    /\ ev = "undoOk"
    /\ Len(highlightStack) = 1
    /\ undoCount = 1

\* C7: a successful undo response replaces token, columns and rowCount by those
\* of the response and sends a page request for the new token at offset 0 with
\* no overlay code; when that request succeeds, offset = 0, activeCode = null
\* and rowCount is the row count of the post-undo dataset.
C7_UndoReplacesSessionAndRefetches ==
    /\ ev = "undoOk" =>
         /\ columns = stripColumns(ColumnsOf(session))
         /\ rowCount = RowsOf(session)
         /\ \E i \in InFlight("undo") :
               /\ tasks[i].stage = "page"
               /\ tasks[i].req.session = session
               /\ tasks[i].req.offset = 0
               /\ tasks[i].req.code = NULL
    /\ ev = "undoPageOk" =>
         /\ offset = 0
         /\ activeCode = NULL
         /\ rowCount = RowsOf(session)

\* C8: an undo answered with success = false puts the server's message, or
\* "Undo failed", in error and changes nothing of the session, the highlights,
\* the stack, undoCount, the window or the transcript.
C8_RefusedUndoChangesNothing ==
    [][ev' = "undoRefused" =>
         /\ error' \in {ServerMessage, "Undo failed"}
         /\ UNCHANGED <<datasetId, session, columns, rowCount, highlightedCells, highlightStack,
                        updatedRowIds, undoCount, preview, offset, limit, activeCode, messages>>]_vars
\* a refusal without a message, with an operation on the stack
C8_Witness ==
    /\ ev = "undoRefused"
    /\ error = "Undo failed"
    /\ highlightStack # <<>>

\* C9: undo invoked without dataset identity or token sets error to
\* "No dataset loaded", sends no request and changes nothing else.
C9_UndoWithoutDataset ==
    [][ev' = "undoNoDataset" =>
         /\ error' = "No dataset loaded"
         /\ UNCHANGED <<tasks, loading, paging, mounted, storage, datasetId, session, columns,
                        rowCount, preview, offset, limit, activeCode, messages,
                        highlightedCells, highlightStack, updatedRowIds, undoCount>>]_vars
\* the Undo button pressed with a token but no dataset identity
C9_Witness ==
    /\ ev = "undoNoDataset"
    /\ datasetId = NULL
    /\ error = "No dataset loaded"
    /\ tasks = [i \in 1..MaxTasks |-> Idle]

\* C10: a response with changed cells sends a page request at offset 0 with no
\* overlay code; when runNLQ goes on, exactly one operation is pushed, holding
\* one key per changed cell in the order of the response, and all its keys have
\* one and the same color of the palette in highlightedCells.
C10_MutationRefetchesAndHighlights ==
    [][/\ ev' = "nlqMutation" =>
            \E i \in Slots :
               /\ tasks'[i].kind = "nlq" /\ tasks'[i].stage = "page"
               /\ tasks'[i].req.session = session
               /\ tasks'[i].req.offset = 0
               /\ tasks'[i].req.code = NULL
       /\ ev' \in {"nlqPageOk", "nlqPageFail"} =>
            \E i \in InFlight("nlq") :
               LET cells == tasks[i].pend.cells
                   op == Last(highlightStack')
               IN /\ Len(highlightStack') = Len(highlightStack) + 1
                  /\ \A k \in 1..Len(highlightStack) : highlightStack'[k] = highlightStack[k]
                  /\ Len(op) = Len(cells)
                  /\ \A k \in 1..Len(cells) : op[k] = CellKey(cells[k])
                  /\ \E color \in 0..(PaletteSize - 1) :
                        \A k \in 1..Len(op) : highlightedCells'[op[k]] = color]_vars
\* the operation of Scenario B is on the stack, both keys with one color
C10_Witness ==
    /\ ev = "nlqPageOk"
    /\ Last(highlightStack) = <<"5-age", "7-age">>
    /\ highlightedCells["5-age"] = highlightedCells["7-age"]
    /\ offset = 0 /\ activeCode = NULL

\* the steps in which a fetchPage applies a successful response
PageOkEvents == {"pageOk", "establishPageOk", "nlqPageOk", "undoPageOk"}
\* the total the service reports for the window on display (0 before any)
WindowTotal == IF preview.tok = NULL THEN 0 ELSE MatchCount(preview.tok, preview.code)

\* C11: when fetchPage applies a successful response, the displayed rows are
\* the rows of the response, offset is the requested offset and rowCount is the
\* total of the response, also when that total is 0; never a remembered value.
C11_PageResponseReplacesWindow ==
    [][ev' \in PageOkEvents =>
         \E i \in Busy :
            /\ tasks[i].stage = "page" /\ tasks'[i] = Idle
            /\ LET data == PageResponseOf(tasks[i].req)
               IN /\ preview' = data.rows
                  /\ offset' = tasks[i].req.offset
                  /\ rowCount' = data.total]_vars

\* C12: fetchPage called while no token is held sends no request, puts a
\* notice in error and leaves the rows, offset, limit, overlay code, total,
\* paging flag, loading flag and session as they were.
C12_FetchPageWithoutSession ==
    [][ev' = "nextNoSession" =>
         /\ session = NULL
         /\ error' = "Load a dataset first"
         /\ UNCHANGED <<tasks, preview, offset, limit, activeCode, rowCount, paging, loading,
                        session, datasetId, columns>>]_vars
\* the Next button was pressed on the snapshot of a response without a token
C12_Witness ==
    /\ ev = "nextNoSession"
    /\ session = NULL
    /\ error = "Load a dataset first"
    /\ ~paging
    /\ preview.len = DEFAULT_PAGE_SIZE /\ offset = 0
    /\ tasks = [i \in 1..MaxTasks |-> Idle]

\* C13: in every reachable state currentPage is floor(offset / limit) + 1 and
\* totalPages is max(1, ceil(total / limit)), total being the total the service
\* reports for the window on display.
C13_PaginationDerivation ==
    /\ offset >= 0 /\ limit > 0
    /\ currentPage = (offset \div limit) + 1
    /\ totalPages = Max(1, CeilDiv(WindowTotal, limit))

\* C14: while no page request is in flight (in flight, both controls are
\* disabled whatever the offset), Prev is disabled exactly if offset = 0 and
\* Next is disabled exactly if offset + limit >= total, total being the total
\* the service reports for the window on display.
C14_NavigationAffordances ==
    ~paging =>
        /\ PrevDisabled <=> (offset = 0)
        /\ NextDisabled <=> (offset + limit >= WindowTotal)

\* s is a prefix of t
IsPrefix(s, t) == Len(s) <= Len(t) /\ SubSeq(t, 1, Len(s)) = s
\* the steps in which loadDataset / openDataset apply a successful response
EstablishEvents == {"loadOk", "openOk", "loadOkNoSession", "openOkNoSession"}

\* C15: the Show All button of a preview turn is enabled only while the turn
\* is the last of the transcript; once a later turn exists it is disabled, and
\* it stays disabled in every later state in which the turn still exists.
C15_ShowAllOnlyOnLastTurn ==
    [][\A idx \in 1..Len(messages) :
          /\ ShowAllEnabled(idx) => idx = Len(messages)
          /\ (idx < Len(messages) /\ Len(messages') >= Len(messages)) =>
                /\ messages'[idx] = messages[idx]
                /\ ~(ShowAllEnabled(idx))']_vars
\* two preview turns: the button of the older is disabled, of the newer enabled
C15_Witness ==
    /\ Len(messages) = 4
    /\ messages[2].kind = "preview" /\ messages[2].totalCount > 0
    /\ ~ShowAllEnabled(2)
    /\ ShowAllEnabled(4)

\* C16: the transcript is append-only: a step that applies a successful load
\* or open empties it, every other step leaves it as it was or extends it at
\* its end; so nothing but a successful load or open empties it.
C16_TranscriptAppendOnly ==
    [][IF ev' \in EstablishEvents
         THEN messages' = <<>>
         ELSE IsPrefix(messages, messages')]_vars
\* the confirmation turn of an undo was appended after the two turns of a mutation
C16_Witness ==
    /\ ev = "undoOk"
    /\ Len(messages) = 3
    /\ messages[1].role = "user" /\ messages[2].kind = "update" /\ messages[3].kind = "text"

\* an open request is waiting for its response
OpenRequested == \E i \in Slots : Waiting(i, "open", "main")

\* C17: when the open request of openDataset fails, the stored identity is
\* removed, error is set, no token is held and no request is left in flight;
\* open requests are sent by the mount effect only, which runs once, so none
\* follows.
C17_FailedReopenPurgesIdentity ==
    [][/\ ev' = "openFail" =>
            /\ storage' = NULL
            /\ error' # NULL
            /\ session' = NULL /\ datasetId' = NULL
            /\ tasks' = [i \in Slots |-> Idle]
       /\ (OpenRequested' /\ ~OpenRequested) => (~mounted /\ mounted')
       /\ mounted => mounted']_vars
\* the reopen of a stored identity has failed
C17_Witness ==
    /\ ev = "openFail"
    /\ mounted
    /\ storage = NULL
    /\ error = "Request failed"
    /\ session = NULL

\* C18: after a successful load or open whose response carries a dataset
\* identity the stored identity is that identity, and the store never holds a
\* session token.
C18_StorageHoldsIdentityOnly ==
    /\ storage \notin Tokens
    /\ (ev \in EstablishEvents /\ datasetId # NULL) => storage = datasetId
\* a load of dataset d0 after operations on another dataset: d0 is stored
C18_Witness ==
    /\ ev = "loadOk"
    /\ highlightStack # <<>>
    /\ session = "s0"
    /\ storage = "d0" /\ datasetId = "d0"

\* C19: every step that replaces the token (load, open, undo) also sets the
\* dataset identity, the columns and rowCount from the same response, and no
\* other step changes token or identity.
C19_TokenAndIdentityTogether ==
    [][/\ ev' \in {"loadOk", "openOk", "undoOk"} =>
            /\ columns' = stripColumns(ColumnsOf(session'))
            /\ rowCount' = RowsOf(session')
            /\ IF ev' = "undoOk"
                 THEN datasetId' = DatasetOf(session')
                 ELSE datasetId' \in {DatasetOf(session'), NULL}
       /\ (session' # session \/ datasetId' # datasetId) =>
            ev' \in EstablishEvents \cup {"undoOk"}]_vars

\* C20: loading and paging are never both true.
C20_BusyFlagsExclusive ==
    ~(loading /\ paging)

\* C21: while a request is outstanding every control that would send another
\* one (Send, Load, Prev, Next, Show All Data, Undo, Show All of a preview turn)
\* is disabled, so at most one request is outstanding.
C21_OneRequestAtATime ==
    /\ Cardinality(Busy) <= 1
    /\ Busy # {} =>
         /\ SendDisabled /\ LoadDisabled
         /\ PrevDisabled /\ NextDisabled
         /\ ShowAllDataDisabled /\ UndoDisabled
         /\ \A idx \in 1..Len(messages) : ~ShowAllEnabled(idx)

\* C22: when runNLQ has applied a mutation response, and when handleUndo
\* applies a successful undo response, undoCount is the undo_count of that
\* response (0 for an absent one), whatever the length of highlightStack.
C22_UndoCountIsReported ==
    [][/\ ev' \in {"nlqPageOk", "nlqPageFail"} =>
            \E i \in InFlight("nlq") : undoCount' = tasks[i].pend.undo_count
       /\ ev' = "undoOk" =>
            \E i \in Slots :
               /\ Waiting(i, "undo", "main")
               /\ undoCount' = tasks'[i].pend.undo_count]_vars
\* the service reported one undo level for a second mutation: two operations
\* on the stack, undoCount 1
C22_Witness ==
    /\ ev = "nlqPageOk"
    /\ Len(highlightStack) = 2
    /\ undoCount = 1

\* C23: after a load (or open) has completed with its page request, columns
\* and rowCount are those of the loaded dataset whatever the state before the
\* load, so that two loads of one unchanged dataset show the same columns and
\* rowCount.
C23_LoadDeterminedByDataset ==
    ev = "establishPageOk" =>
        /\ columns = stripColumns(ColumnsOf(session))
        /\ rowCount = RowsOf(session)

\* the steps of the paging and overlay controls and of their page requests
PagingEvents == {"prev", "next", "nextNoSession", "showAllInTable", "showAllData",
                 "pageOk", "pageFail"}

\* C24: Prev, Next, Show All of a preview turn and Show All Data, and the page
\* requests they send, leave highlightedCells, highlightStack, undoCount and the
\* transcript as they were.
C24_HighlightsSurvivePaging ==
    [][ev' \in PagingEvents =>
         UNCHANGED <<highlightedCells, highlightStack, undoCount, messages>>]_vars
\* the second window of the data is on display after a mutation, its
\* operation still on the stack and its cells still highlighted
C24_Witness ==
    /\ ev = "pageOk"
    /\ offset = DEFAULT_PAGE_SIZE
    /\ highlightStack = <<<<"5-age", "7-age">>>>
    /\ DOMAIN highlightedCells = {"5-age", "7-age"}
    /\ undoCount = 1

\* the steps in which runNLQ goes on after the page request of a mutation
MutationDoneEvents == {"nlqPageOk", "nlqPageFail"}

\* C25: undo is last-in-first-out: a mutation puts its operation on top of
\* highlightStack, a successful undo on a non-empty stack removes the top
\* operation and keeps the others in their order, and no other step changes the
\* stack; so after n mutations and k <= n undos the first n - k operations are
\* left in their original order.
C25_UndoIsLIFO ==
    [][/\ ev' \in MutationDoneEvents =>
            \E i \in InFlight("nlq") :
               highlightStack' = Append(highlightStack, OperationKeys(tasks[i].pend.cells))
       /\ (ev' = "undoOk" /\ highlightStack # <<>>) =>
            highlightStack' = SubSeq(highlightStack, 1, Len(highlightStack) - 1)
       /\ ev' \notin MutationDoneEvents \cup {"undoOk"} => UNCHANGED highlightStack]_vars
\* two mutations and one undo in one transcript: the operation of the first
\* mutation is left, the key that only the first one holds is still highlighted
C25_Witness ==
    /\ ev = "undoOk"
    /\ Len(messages) = 5
    /\ messages[2].kind = "update" /\ messages[4].kind = "update" /\ messages[5].kind = "text"
    /\ highlightStack = <<<<"5-age", "7-age">>>>
    /\ DOMAIN highlightedCells = {"7-age"}

\* the row at position idx of the window has a highlighted displayed cell
RowHighlighted(idx) ==
    \E col \in DisplayedColumns(preview) :
       CellKey(Cell(WindowRowIds(preview)[idx], col)) \in DOMAIN highlightedCells

\* C26: the rendered order of the window is a stable partition of it: every
\* row of the window occurs once, every row with a highlighted displayed cell
\* comes before every row without, and within each group the rows keep the
\* order of the window.
C26_RenderIsStablePartition ==
    LET out == sortedPairs IN
    /\ Len(out) = preview.len
    /\ {out[j] : j \in 1..Len(out)} = 1..preview.len
    /\ \A j, k \in 1..Len(out) :
          j < k =>
            /\ RowHighlighted(out[j]) \/ ~RowHighlighted(out[k])
            /\ (RowHighlighted(out[j]) <=> RowHighlighted(out[k])) => out[j] < out[k]
\* the filtered window holds rows 4, 2, 0 in this order; rows 4 and 0 are
\* highlighted and rendered first, 4 still before 0; row 2, whose only
\* changed cell is in a column not displayed, comes last
C26_Witness ==
    /\ preview.code = "f1"
    /\ WindowRowIds(preview) = <<4, 2, 0>>
    /\ {"4-age", "0-age", "2-zip"} \subseteq DOMAIN highlightedCells
    /\ sortedPairs = <<1, 3, 2>>

\* C27: in every state with no request outstanding the displayed window and
\* rowCount are what the service returned for the current session token: the
\* window is a slice of the session's dataset state and rowCount is the total
\* of that slice's listing.
C27_DisplayOfCurrentSession ==
    (Busy = {} /\ session # NULL) =>
        /\ preview.tok = session
        /\ rowCount = MatchCount(session, preview.code)

\* C28: after every mutation response and every successful undo response the
\* highlight stack is no longer than undoCount, and when undoCount is 0 the
\* stack and highlightedCells are empty.
C28_StackWithinUndoCount ==
    ev \in MutationDoneEvents \cup {"undoOk"} =>
        /\ Len(highlightStack) <= undoCount
        /\ undoCount = 0 => (highlightStack = <<>> /\ highlightedCells = EmptyMap)

\* the rows with a changed cell whose key is in some operation of the stack
RowsTouchedBy(stack) ==
    {cell.row_id : cell \in {c \in UNION {RangeOf(l) : l \in CellLists \cup RenderCellLists} :
                               \E n \in 1..Len(stack) : CellKey(c) \in RangeOf(stack[n])}}

\* C29: a successful undo leaves updatedRowIds equal to the set of rows in
\* the keys of the operations that remain on the stack; a row touched by the
\* undone operation and by a remaining one stays in the set.
C29_UndoRecomputesRowIds ==
    [][ev' = "undoOk" => updatedRowIds' = RowsTouchedBy(highlightStack')]_vars
\* operations on row 5 and on rows 5 and 7; the second is undone and row 5,
\* touched by both, is still marked
C29_Witness ==
    /\ ev = "undoOk"
    /\ highlightStack = <<<<"5-age">>>>
    /\ updatedRowIds = {5}
    /\ Len(messages) = 5

\* the steps in which a load, transform, undo or page request fails (a
\* refused undo among them); the page request of a mutation is apart, as
\* runNLQ applies the mutation's response in the same step
FailedCallEvents == {"loadFail", "nlqFail", "undoFail", "undoRefused", "pageFail",
                     "establishPageFail", "undoPageFail"}
\* the handler of the step is over and has sent nothing
HandlerEnded ==
    \E i \in Busy : /\ tasks'[i] = Idle
                    /\ \A j \in Slots \ {i} : tasks'[j] = tasks[j]

TwoTurnsAppended(kind) ==
    LET n == Len(messages) IN
    /\ Len(messages') = n + 2
    /\ SubSeq(messages', 1, n) = messages
    /\ messages'[n + 1].role = "user" /\ messages'[n + 1].text = Question
    /\ messages'[n + 2].role = "assistant" /\ messages'[n + 2].kind = kind

\* C31: every transform response that is received appends exactly two turns,
\* the user turn with the question and then one assistant turn: of kind error
\* for a response with an error, of kind update with the number of changed
\* cells for a mutation (appended when its handler ends, nothing before), of
\* kind preview otherwise.
C31_ResponseAppendsTwoTurns ==
    [][/\ ev' = "nlqError" =>
            /\ TwoTurnsAppended("error")
            /\ Last(messages').text = error'
       /\ ev' = "nlqPreview" => TwoTurnsAppended("preview")
       /\ ev' = "nlqMutation" => messages' = messages
       /\ ev' \in MutationDoneEvents =>
            /\ TwoTurnsAppended("update")
            /\ \E i \in InFlight("nlq") :
                  Last(messages').updatedCount = Len(tasks[i].pend.cells)]_vars
\* an error response after a mutation: the transcript ends with the question
\* and an error turn
C31_Witness ==
    /\ ev = "nlqError"
    /\ Len(messages) = 4
    /\ messages[2].kind = "update" /\ messages[2].updatedCount = 2
    /\ messages[3].role = "user"
    /\ messages[4].kind = "error"

\* C32: when every outstanding request is answered or fails in the end,
\* loading, once set by a load, open, transform or undo, becomes false again
\* and paging, once set by a page request, becomes false again, on the
\* success and on the failure path.
C32_FlagsEventuallyClear ==
    /\ loading ~> ~loading
    /\ paging ~> ~paging
\* an undo whose page request failed has ended with both flags cleared
C32_Witness ==
    /\ ev = "undoPageFail"
    /\ ~loading /\ ~paging
    /\ Busy = {}

\* the handlers that wait for the response of a page request
PageOutstanding == {i \in Slots : tasks[i] # Idle /\ tasks[i].stage = "page"}

\* C33: paging is true in every state in which a page request is outstanding,
\* also when a Prev/Next request was sent while a load, transform or undo that
\* sends a page request of its own was in flight.
C33_PagingWhilePageOutstanding ==
    PageOutstanding # {} => paging

\* C34: the page request of Prev or Next carries the overlay code of the
\* request that produced the window on display, whatever transform responses
\* were received since.
C34_PagingKeepsOverlay ==
    [][ev' \in {"prev", "next"} =>
          \E i \in Slots : /\ tasks[i] = Idle
                           /\ tasks'[i] # Idle
                           /\ tasks'[i].req.code = preview.code]_vars

\* C35: in every state with no request outstanding offset is a non-negative
\* multiple of limit and the page shown does not lie past the last one:
\* currentPage <= totalPages.
C35_OffsetWithinPages ==
    Busy = {} =>
        /\ offset >= 0 /\ limit > 0
        /\ offset % limit = 0
        /\ currentPage <= totalPages

====
